---- MODULE Spec2Model ----
(***************************************************************************)
(* Drone-Vision (dxd_vision): the frame sampler, the three-way pipeline    *)
(* and the trajectory aggregator, as state machines.                       *)
(*                                                                         *)
(* Units.  A frame rate is held as an integer number of 1/1000 fps (24000  *)
(* is 24.0 fps, 12 is 0.012 fps); the sampler works on the double nearest  *)
(* that rate, and its timestamps are doubles in milliseconds, computed     *)
(* with the rounding of IEEE 754 binary64 as Python's float does.  The     *)
(* averages of the summaries are exact rationals [num, den].               *)
(***************************************************************************)
EXTENDS Integers, Sequences, FiniteSets, TLC

VARIABLES
    config,            \* the configuration the run was constructed with
    video,             \* the video file as the decoder reports it
    cap,               \* VideoReader._cap: "open" or NoCapture
    cap_pos,           \* decoder position (CAP_PROP_POS_FRAMES)
    frame_number,      \* read_frames' local frame counter
    next_target_ms,    \* extract's running next target timestamp
    emitted,           \* the FrameData yielded by extract() so far, in order
    pc,                \* where the caller / generator stands
    error,             \* the exception leaving the operation, or None
    mode,              \* who drains extract(): "LIST", or process_video's route
    frames_extracted,  \* the consumer loop's frame counter
    sample_frame,      \* _process_with_*: the retained FrameData, or None
    sample_path,       \* extract_all: the saved sample's path, or None
    frame_results,     \* all_frame_detections / all_frame_trackings
    trajectories,      \* ObjectTracker._trajectories: track_id -> entries
    result,            \* what process_video returned, or None
    model_log,         \* the calls the vision model has received, in order
    fresh_tracker      \* _trajectories of a tracker constructed at the last reset()
                       \* and fed the frames fed since

readerVars == <<cap_pos, frame_number>>
runVars == <<mode, frames_extracted, sample_frame, sample_path, frame_results, trajectories, result,
             model_log, fresh_tracker>>
vars == <<config, video, cap, cap_pos, frame_number, next_target_ms, emitted, pc, error,
          mode, frames_extracted, sample_frame, sample_path, frame_results, trajectories,
          result, model_log, fresh_tracker>>

\* Optional values: None is the empty tuple, a present value x is <<x>>.
None == <<>>

Some(x) == <<x>>

\* VideoReader._cap after release()
NoCapture == "None"

(***************************************************************************)
(* Bounds and input domains                                                *)
(***************************************************************************)
MaxSourceFrames == 6

MaxRunFrames == 3

\* rates of the sampler on its own, in 1/1000 fps
SourceFpsValues == {0, 12, 24000, 30000}

TargetFpsValues == {-20, 0, 5, 5000, 15000, 18000, 60000}

\* <<target_fps, native fps>> of the runs: decimation, pass-through, a target
\* rate of 0, a reported native rate of 0
RunRates == {<<15000, 30000>>, <<60000, 30000>>, <<0, 30000>>, <<5000, 0>>}

\* the native rate of the frames handed to a bare tracker
TrackerSourceFps == 30000

RateValues ==
    SourceFpsValues \cup TargetFpsValues \cup {r[1] : r \in RunRates}
        \cup {r[2] : r \in RunRates} \cup {TrackerSourceFps}

\* the frame numbers a source of these lengths can give
FrameNumberValues == 0..(IF MaxSourceFrames > MaxRunFrames THEN MaxSourceFrames ELSE MaxRunFrames)

(***************************************************************************)
(* Exact rational arithmetic                                               *)
(***************************************************************************)
Rat(n, d) == [num |-> n, den |-> d]

Abs(x) == IF x < 0 THEN -x ELSE x

Min(a, b) == IF a < b THEN a ELSE b

(***************************************************************************)
(* Natural numbers of any size, as sequences of 15-bit limbs, least        *)
(* significant first, without leading zero limbs; zero is <<>>.            *)
(***************************************************************************)
LIMB_BITS == 15

LIMB_BASE == 32768

\* a without its leading zero limbs
BigTrim(a) ==
    IF a = <<>> THEN <<>>
    ELSE IF a[Len(a)] # 0 THEN a
    ELSE LET nonzero == {i \in 1..Len(a) : a[i] # 0}
         IN  IF nonzero = {} THEN <<>>
             ELSE SubSeq(a, 1, CHOOSE i \in nonzero : \A j \in nonzero : j <= i)

\* a natural number below 2^31 as limbs
BigFromNat(n) ==
    BigTrim(<<n % LIMB_BASE, (n \div LIMB_BASE) % LIMB_BASE, n \div (LIMB_BASE * LIMB_BASE)>>)

\* limb i of a, zero past its length
BigLimb(a, i) == IF i <= Len(a) THEN a[i] ELSE 0

\* a + b: a carry enters limb i when a lower limb sum overflows and every limb
\* sum between the two is LIMB_BASE - 1
BigAdd(a, b) ==
    IF a = <<>> THEN b
    ELSE IF b = <<>> THEN a
    ELSE
    LET n == (IF Len(a) > Len(b) THEN Len(a) ELSE Len(b)) + 1
        sum == [i \in 1..n |-> BigLimb(a, i) + BigLimb(b, i)]
        carry == [i \in 1..n |->
                     IF \E j \in 1..(i - 1) :
                            /\ sum[j] >= LIMB_BASE
                            /\ \A k \in (j + 1)..(i - 1) : sum[k] = LIMB_BASE - 1
                     THEN 1 ELSE 0]
    IN  BigTrim([i \in 1..n |-> (sum[i] + carry[i]) % LIMB_BASE])

\* a - b for a >= b: a borrow enters limb i when a lower limb difference is
\* negative and every limb difference between the two is zero
BigSub(a, b) ==
    IF b = <<>> THEN a
    ELSE
    LET n == Len(a)
        diff == [i \in 1..n |-> a[i] - BigLimb(b, i)]
        borrow == [i \in 1..n |->
                      IF \E j \in 1..(i - 1) :
                             /\ diff[j] < 0
                             /\ \A k \in (j + 1)..(i - 1) : diff[k] = 0
                      THEN 1 ELSE 0]
    IN  BigTrim([i \in 1..n |-> (diff[i] - borrow[i]) % LIMB_BASE])

\* -1, 0 or 1 as a is below, equal to or above b
BigCmp(a, b) ==
    IF Len(a) < Len(b) THEN -1
    ELSE IF Len(a) > Len(b) THEN 1
    ELSE LET differ == {i \in 1..Len(a) : a[i] # b[i]}
         IN  IF differ = {} THEN 0
             ELSE LET top == CHOOSE i \in differ : \A j \in differ : j <= i
                  IN  IF a[top] < b[top] THEN -1 ELSE 1

\* a * LIMB_BASE^n
BigShlLimbs(a, n) == IF a = <<>> THEN <<>> ELSE [i \in 1..n |-> 0] \o a

\* a * k for 0 <= k < LIMB_BASE: the low halves of the limb products plus their
\* high halves one limb up
BigMulSmall(a, k) ==
    IF a = <<>> \/ k = 0 THEN <<>>
    ELSE
    BigAdd([i \in 1..Len(a) |-> (a[i] * k) % LIMB_BASE],
           <<0>> \o [i \in 1..Len(a) |-> (a[i] * k) \div LIMB_BASE])

\* a * (limbs j.. of b) * LIMB_BASE^(j - 1)
RECURSIVE BigMulFrom(_, _, _)
BigMulFrom(a, b, j) ==
    IF j > Len(b) THEN <<>>
    ELSE BigAdd(BigShlLimbs(BigMulSmall(a, b[j]), j - 1), BigMulFrom(a, b, j + 1))

BigMul(a, b) == BigMulFrom(a, b, 1)

\* a * 2^n
BigShl(a, n) == BigShlLimbs(BigMulSmall(a, 2^(n % LIMB_BITS)), n \div LIMB_BITS)

\* floor(a / 2^n): limb i takes the high bits of limb i + s and the low bits of
\* the limb above it
BigShr(a, n) ==
    LET s == n \div LIMB_BITS
        low == 2^(n % LIMB_BITS)
        high == 2^(LIMB_BITS - (n % LIMB_BITS))
    IN  BigTrim([i \in 1..(IF Len(a) > s THEN Len(a) - s ELSE 0) |->
                    (a[i + s] \div low) + (BigLimb(a, i + s + 1) % low) * high])

\* the number of bits of a limb
BitLenSmall(n) == CHOOSE k \in 0..LIMB_BITS : n < 2^k /\ (k = 0 \/ 2^(k - 1) <= n)

BigBitLen(a) == IF a = <<>> THEN 0 ELSE LIMB_BITS * (Len(a) - 1) + BitLenSmall(a[Len(a)])

\* the quotient digit of r by b, for r < b * LIMB_BASE and the top limb of b at
\* least LIMB_BASE / 2: the estimate est from the top limbs is at most 2 too large
BigDivDigitNear(r, b, est) ==
    CHOOSE q \in {est - 2, est - 1, est} :
        /\ q >= 0
        /\ BigCmp(BigMulSmall(b, q), r) <= 0
        /\ q = est \/ BigCmp(BigMulSmall(b, q + 1), r) > 0

BigDivDigit(r, b) ==
    BigDivDigitNear(r, b, Min((BigLimb(r, Len(b) + 1) * LIMB_BASE + BigLimb(r, Len(b))) \div b[Len(b)],
                              LIMB_BASE - 1))

\* long division: limbs i..1 of a are brought down one by one onto the remainder
\* rem < b, q holds the quotient digits found so far: [q, r]
RECURSIVE BigDivFrom(_, _, _, _, _)
\* the step that finds the quotient digit of the remainder r1 with limb i brought down
BigDivDigitFound(a, b, i, r1, q, digit) ==
    IF digit = 0 THEN BigDivFrom(a, b, i - 1, r1, <<0>> \o q)
    ELSE BigDivFrom(a, b, i - 1, BigSub(r1, BigMulSmall(b, digit)), <<digit>> \o q)

BigDivBroughtDown(a, b, i, r1, q) ==
    BigDivDigitFound(a, b, i, r1, q, IF BigCmp(r1, b) < 0 THEN 0 ELSE BigDivDigit(r1, b))

BigDivFrom(a, b, i, rem, q) ==
    IF i = 0 THEN [q |-> q, r |-> rem]
    ELSE BigDivBroughtDown(a, b, i, BigTrim(<<a[i]>> \o rem), q)

\* floor(a / b) and whether the division is exact, for b # 0: both are shifted
\* left until the top limb of b is at least LIMB_BASE / 2, and the division
\* starts below the top limbs of a, fewer than b has and so less than b
BigDivResult(d) == [q |-> BigTrim(d.q), exact |-> d.r = <<>>]

BigDivNormalised(num, den) ==
    BigDivResult(BigDivFrom(num, den, Len(num) - Len(den) + 1,
                            SubSeq(num, Len(num) - Len(den) + 2, Len(num)), <<>>))

BigDivMod(a, b) ==
    IF BigCmp(a, b) < 0 THEN [q |-> <<>>, exact |-> a = <<>>]
    ELSE BigDivNormalised(BigShl(a, LIMB_BITS - BitLenSmall(b[Len(b)])),
                          BigShl(b, LIMB_BITS - BitLenSmall(b[Len(b)])))

(***************************************************************************)
(* IEEE 754 binary64, the floats of the Python code: a record [sign, mant, *)
(* exp] of value sign * mant * 2^exp with mant = 0 (and exp = 0) or        *)
(* 2^52 <= mant < 2^53.  Each operation is the exact result rounded to the *)
(* nearest double, ties to even.  Overflow, subnormals and the sign of     *)
(* zero are outside the values the sampler meets.                          *)
(***************************************************************************)
F64_PRECISION == 53

F64Zero == [sign |-> 1, mant |-> <<>>, exp |-> 0]

F64IsZero(a) == a.mant = <<>>

\* sign * (N * 2^e, plus a non-zero tail below the last bit if sticky) rounded;
\* sticky is only given with N of more than F64_PRECISION + 1 bits
\* the rounded mantissa q2 * 2^e, renormalised if the rounding carried out of it
F64RoundCarry(sign, q2, e) ==
    IF BigBitLen(q2) > F64_PRECISION
    THEN [sign |-> sign, mant |-> BigShr(q2, 1), exp |-> e + 1]
    ELSE [sign |-> sign, mant |-> q2, exp |-> e]

\* c is -1, 0 or 1 as the bits dropped below q are under, at or over one half
F64RoundHalf(sign, q, e, sticky, c) ==
    IF c > 0 \/ (c = 0 /\ (sticky \/ q[1] % 2 = 1))
    THEN F64RoundCarry(sign, BigAdd(q, <<1>>), e)
    ELSE F64RoundCarry(sign, q, e)

\* q is N without its sh lowest bits
F64RoundDropped(sign, N, e, sticky, sh, q) ==
    F64RoundHalf(sign, q, e + sh, sticky,
                 BigCmp(BigSub(N, BigShl(q, sh)), BigShl(<<1>>, sh - 1)))

\* len is the number of bits of N
F64RoundBits(sign, N, e, sticky, len) ==
    IF len <= F64_PRECISION
    THEN [sign |-> sign, mant |-> BigShl(N, F64_PRECISION - len),
          exp |-> e - (F64_PRECISION - len)]
    ELSE F64RoundDropped(sign, N, e, sticky, len - F64_PRECISION,
                         BigShr(N, len - F64_PRECISION))

F64Round(sign, N, e, sticky) ==
    IF N = <<>> THEN F64Zero ELSE F64RoundBits(sign, N, e, sticky, BigBitLen(N))

\* float(n) for an integer n
F64FromInt(n) == F64Round(IF n < 0 THEN -1 ELSE 1, BigFromNat(IF n < 0 THEN -n ELSE n), 0, FALSE)

F64Neg(a) ==
    IF F64IsZero(a) THEN a ELSE [sign |-> 0 - a.sign, mant |-> a.mant, exp |-> a.exp]

\* abs(a)
F64Abs(a) == [sign |-> 1, mant |-> a.mant, exp |-> a.exp]

\* -1, 0 or 1 as |a| is below, equal to or above |b|
F64CmpMagnitude(a, b) ==
    IF F64IsZero(a) /\ F64IsZero(b) THEN 0
    ELSE IF F64IsZero(a) THEN -1
    ELSE IF F64IsZero(b) THEN 1
    ELSE IF a.exp < b.exp THEN -1
    ELSE IF a.exp > b.exp THEN 1
    ELSE BigCmp(a.mant, b.mant)

F64SignOf(a) == IF F64IsZero(a) THEN 0 ELSE a.sign

\* -1, 0 or 1 as a < b, a == b or a > b
F64Cmp(a, b) ==
    IF F64SignOf(a) # F64SignOf(b)
    THEN (IF F64SignOf(a) < F64SignOf(b) THEN -1 ELSE 1)
    ELSE F64SignOf(a) * F64CmpMagnitude(a, b)

\* a >= b
F64GE(a, b) == F64Cmp(a, b) >= 0

\* a < b
F64LT(a, b) == F64Cmp(a, b) < 0

\* a + b
\* sa * Na * 2^e + sb * Nb * 2^e
F64AddAligned(sa, Na, sb, Nb, e) ==
    F64Round(IF sa = sb \/ BigCmp(Na, Nb) >= 0 THEN sa ELSE sb,
             IF sa = sb THEN BigAdd(Na, Nb)
             ELSE IF BigCmp(Na, Nb) >= 0 THEN BigSub(Na, Nb) ELSE BigSub(Nb, Na),
             e, FALSE)

F64Add(a, b) ==
    IF F64IsZero(a) THEN b
    ELSE IF F64IsZero(b) THEN a
    ELSE F64AddAligned(a.sign, BigShl(a.mant, a.exp - Min(a.exp, b.exp)),
                       b.sign, BigShl(b.mant, b.exp - Min(a.exp, b.exp)),
                       Min(a.exp, b.exp))

\* a - b
F64Sub(a, b) == F64Add(a, F64Neg(b))

\* a * b
F64Mul(a, b) ==
    IF F64IsZero(a) \/ F64IsZero(b) THEN F64Zero
    ELSE F64Round(a.sign * b.sign, BigMul(a.mant, b.mant), a.exp + b.exp, FALSE)

\* a / b, defined for b # 0 only: the quotient of the mantissas to 55 or 56 bits,
\* the rest sticky
F64DivRounded(sign, d, e) == F64Round(sign, d.q, e, ~d.exact)

F64Div(a, b) ==
    CASE ~F64IsZero(b) ->
        IF F64IsZero(a) THEN F64Zero
        ELSE F64DivRounded(a.sign * b.sign,
                           BigDivMod(BigShl(a.mant, F64_PRECISION + 2), b.mant),
                           a.exp - b.exp - (F64_PRECISION + 2))

\* the double nearest n / d, as a decimal literal of that value reads
F64FromRatio(n, d) == F64Div(F64FromInt(n), F64FromInt(d))

(***************************************************************************)
(* FrameExtractor.extract: the pure parts                                  *)
(***************************************************************************)
MS_PER_SECOND == 1000

RATE_UNITS_PER_FPS == 1000

\* the doubles the rates of the input domains are held as, computed once
FpsOfRate == [m \in RateValues |-> F64FromRatio(m, RATE_UNITS_PER_FPS)]

\* the double a rate of m/1000 fps is held as
Fps(m) == FpsOfRate[m]

\* the literal 0.01
PASS_THROUGH_EPS == F64FromRatio(1, 100)

\* target_fps = min(self._config.target_fps, source_fps)
ClampedTargetFps(target_fps, source_fps) == Min(target_fps, source_fps)

\* abs(target_fps - source_fps) < 0.01 for every clamped target and native rate
\* of the input domains, computed once
IsPassThroughOfRates ==
    [t \in RateValues, f \in RateValues |->
        F64LT(F64Abs(F64Sub(Fps(t), Fps(f))), PASS_THROUGH_EPS)]

\* abs(target_fps - source_fps) < 0.01
IsPassThrough(target_fps, source_fps) ==
    IsPassThroughOfRates[ClampedTargetFps(target_fps, source_fps), source_fps]

\* (frame_number / source_fps) * 1000.0 for every frame number and non-zero
\* native rate of the input domains, computed once
TimestampMsOfFrame ==
    [n \in FrameNumberValues, f \in RateValues \ {0} |->
        F64Mul(F64Div(F64FromInt(n), Fps(f)), F64FromInt(MS_PER_SECOND))]

\* timestamp_ms = (frame_number / source_fps) * 1000.0, for source_fps # 0
TimestampMs(n, source_fps) == TimestampMsOfFrame[n, source_fps]

\* 1000.0 / target_fps for every non-zero rate of the input domains, computed once
TargetIntervalMsOfRate ==
    [t \in RateValues \ {0} |-> F64Div(F64FromInt(MS_PER_SECOND), Fps(t))]

\* target_interval_ms = 1000.0 / target_fps, for target_fps # 0
TargetIntervalMs(target_fps) == TargetIntervalMsOfRate[target_fps]

\* FrameMetadata of a yielded frame (the image is identified by its frame number)
FrameData(n, source_fps, target_fps) ==
    [frame_number |-> n,
     timestamp_ms |-> TimestampMs(n, source_fps),
     source_fps |-> source_fps,
     extraction_fps |-> ClampedTargetFps(target_fps, source_fps)]

\* a slip: next_target_ms = target_interval_ms
AdvanceTargetAssign(next_target, target_fps) == TargetIntervalMs(target_fps)

\* next_target_ms += target_interval_ms
AdvanceTarget(next_target, target_fps) ==
    F64Add(next_target, TargetIntervalMs(target_fps))

\* a slip: the counter is not advanced
NextFrameNumberStuck(n) == n

\* frame_number += 1 (read_frames)
NextFrameNumber(n) == n + 1

(***************************************************************************)
(* VideoReader                                                             *)
(***************************************************************************)
\* a slip: _ensure_open lets a released capture through
CapIsOpenUnchecked == TRUE

\* _ensure_open: the capture is usable
CapIsOpen == cap = "open"

\* cap.read() returns ret = True while frames remain
CapHasFrame == cap_pos < video.total_frames

\* a slip: release() returns without touching the capture
ReleaseSkipped(c) == c

\* self._cap after release(): a capture that is not None is released and set to
\* None
Released(c) == IF c # NoCapture THEN NoCapture ELSE c

\* release(), called by the owner of a reader before it drains extract()
ReleaseReader ==
    /\ mode = "LIST"
    /\ pc = "created"
    /\ cap' = Released(cap)
    /\ UNCHANGED <<config, video, readerVars, next_target_ms, emitted, pc, error, runVars>>

(***************************************************************************)
(* FrameExtractor.extract, a generator.  Drained by list() (mode "LIST")   *)
(* a yield only appends to emitted; inside process_video a yield hands the *)
(* frame to the route's loop body (pc "yielded").                          *)
(***************************************************************************)
\* a slip: the exception is caught and the run goes on to build its result
RaiseCaught(type, site) ==
    /\ error' = Some([type |-> type, site |-> site])
    /\ pc' = IF mode = "LIST" THEN "raised" ELSE "finish"
    /\ cap' = cap

\* An exception leaves the operation; process_video's with-block releases the reader.
Raise(type, site) ==
    /\ error' = Some([type |-> type, site |-> site])
    /\ pc' = "raised"
    /\ cap' = IF mode = "LIST" THEN cap ELSE Released(cap)

LoopPc == IF IsPassThrough(config.target_fps, video.fps) THEN "passthrough" ELSE "decimate"

YieldPc == IF mode = "LIST" THEN LoopPc ELSE "yielded"

\* get_video_info(), called by the owner of a reader before it drains extract():
\* the metadata is returned, or _ensure_open raises
GetVideoInfo ==
    /\ mode = "LIST"
    /\ pc = "created"
    /\ IF CapIsOpen
       THEN UNCHANGED <<cap, pc, error>>
       ELSE Raise("VideoReadError", "get_video_info")
    /\ UNCHANGED <<config, video, readerVars, next_target_ms, emitted, runVars>>

\* first next(): lines 32-36 and 51-52, then read_frames' prologue
ExtractBegin ==
    /\ pc = "created"
    /\ IF IsPassThrough(config.target_fps, video.fps)
       THEN IF CapIsOpen
            THEN /\ pc' = "passthrough"
                 /\ cap_pos' = 0
                 /\ frame_number' = 0
                 /\ UNCHANGED <<error, cap, next_target_ms>>
            ELSE /\ Raise("VideoReadError", "read_frames")
                 /\ UNCHANGED <<cap_pos, frame_number, next_target_ms>>
       ELSE IF ClampedTargetFps(config.target_fps, video.fps) = 0
            THEN /\ Raise("ZeroDivisionError", "extract")
                 /\ UNCHANGED <<cap_pos, frame_number, next_target_ms>>
            ELSE IF CapIsOpen
                 THEN /\ pc' = "decimate"
                      /\ next_target_ms' = F64Zero
                      /\ cap_pos' = 0
                      /\ frame_number' = 0
                      /\ UNCHANGED <<error, cap>>
                 ELSE /\ Raise("VideoReadError", "read_frames")
                      /\ UNCHANGED <<cap_pos, frame_number, next_target_ms>>
    /\ UNCHANGED <<config, video, emitted, runVars>>

\* pass-through loop body, lines 37-48
PassThroughFrame ==
    /\ pc = "passthrough"
    /\ CapHasFrame
    /\ IF video.fps = 0
       THEN /\ Raise("ZeroDivisionError", "extract")
            /\ UNCHANGED <<emitted, frame_number, cap_pos>>
       ELSE /\ emitted' = Append(emitted, FrameData(frame_number, video.fps, config.target_fps))
            /\ frame_number' = NextFrameNumber(frame_number)
            /\ cap_pos' = cap_pos + 1
            /\ pc' = YieldPc
            /\ UNCHANGED <<error, cap>>
    /\ UNCHANGED <<config, video, next_target_ms, runVars>>

\* decimation loop body, lines 54-68: line 55 divides by the native rate; a frame
\* at or past the target is yielded and the target advanced, another is skipped
DecimateFrame ==
    /\ pc = "decimate"
    /\ CapHasFrame
    /\ IF video.fps = 0
       THEN /\ Raise("ZeroDivisionError", "extract")
            /\ UNCHANGED <<emitted, next_target_ms, frame_number, cap_pos>>
       ELSE /\ IF F64GE(TimestampMs(frame_number, video.fps), next_target_ms)
               THEN /\ emitted' = Append(emitted, FrameData(frame_number, video.fps, config.target_fps))
                    /\ next_target_ms' = AdvanceTarget(next_target_ms,
                                             ClampedTargetFps(config.target_fps, video.fps))
                    /\ pc' = YieldPc
               ELSE UNCHANGED <<emitted, next_target_ms, pc>>
            /\ frame_number' = NextFrameNumber(frame_number)
            /\ cap_pos' = cap_pos + 1
            /\ UNCHANGED <<error, cap>>
    /\ UNCHANGED <<config, video, runVars>>

\* cap.read() returns ret = False: read_frames ends, extract ends
SourceExhausted ==
    /\ pc \in {"passthrough", "decimate"}
    /\ ~CapHasFrame
    /\ pc' = IF mode = "LIST" THEN "done" ELSE "finish"
    /\ UNCHANGED <<config, video, cap, readerVars, next_target_ms, emitted, error, runVars>>

\* cap.read() raises: the decoder's error leaves read_frames and extract
SourceFails ==
    /\ pc \in {"passthrough", "decimate"}
    /\ CapHasFrame
    /\ Raise("DecoderError", "read_frames")
    /\ UNCHANGED <<config, video, readerVars, next_target_ms, emitted, runVars>>

(***************************************************************************)
(* SpecExtractor: a FrameExtractor on an opened reader, drained by         *)
(* list(extractor.extract()) as the unit tests do.                         *)
(***************************************************************************)
InitExtractor ==
    /\ config \in [target_fps : TargetFpsValues]
    /\ video \in [fps : SourceFpsValues, total_frames : 0..MaxSourceFrames]
    /\ cap = "open"
    /\ cap_pos = 0
    /\ frame_number = 0
    /\ next_target_ms = F64Zero
    /\ emitted = <<>>
    /\ pc = "created"
    /\ error = None
    /\ mode = "LIST"
    /\ frames_extracted = 0
    /\ sample_frame = None
    /\ sample_path = None
    /\ frame_results = <<>>
    /\ trajectories = <<>>
    /\ result = None
    /\ model_log = <<>>
    /\ fresh_tracker = <<>>

NextExtractor ==
    \/ ReleaseReader
    \/ GetVideoInfo
    \/ ExtractBegin
    \/ PassThroughFrame
    \/ DecimateFrame
    \/ SourceExhausted
    \/ SourceFails

SpecExtractor == InitExtractor /\ [][NextExtractor]_vars

(***************************************************************************)
(* The vision model's outputs.  A box is what ultralytics reports: its     *)
(* COCO class name (model.names[int(box.cls[0])]), its confidence in       *)
(* percent, its corner coordinates, and in tracking its identity.          *)
(***************************************************************************)
ModelBoxes ==
    {[cls |-> "person",  conf |-> 92, xyxy |-> <<50, 80, 200, 400>>],
     [cls |-> "car",     conf |-> 78, xyxy |-> <<400, 200, 600, 350>>],
     [cls |-> "bicycle", conf |-> 85, xyxy |-> <<300, 60, 450, 380>>]}

TrackIds == {1, 2}

TrackedBoxes == {[box |-> b, id |-> i] : b \in ModelBoxes, i \in TrackIds}

\* results[0].boxes of model.track: boxes.id is None, or one identity per box
NoIdsOutput == [has_ids |-> FALSE, boxes |-> <<>>]

TrackOutput(boxes) == [has_ids |-> TRUE, boxes |-> boxes]

SeqsUpTo2(S) == {<<>>} \cup {<<a>> : a \in S} \cup {<<a, b>> : a \in S, b \in S}

SeqsUpTo1(S) == {<<>>} \cup {<<a>> : a \in S}

\* the tracking mock's simulated movement: x shifts by 5 px per call received
MOVE_PER_CALL == 5

ShiftedBox(b, offset) ==
    [b EXCEPT !.xyxy = <<b.xyxy[1] + offset, b.xyxy[2], b.xyxy[3] + offset, b.xyxy[4]>>]

\* model.track(image, persist=True): what the model reports for a scene depends
\* on the state it has kept, here the number of calls it has received
ModelTrack(scene, call_num) ==
    [has_ids |-> scene.has_ids,
     boxes |-> [i \in 1..Len(scene.boxes) |->
                   [box |-> ShiftedBox(scene.boxes[i].box, MOVE_PER_CALL * call_num),
                    id |-> scene.boxes[i].id]]]

\* a slip: the frame at index 0 is sent through the detector
ModelCallDetectsFirst(capability, frame) ==
    [capability |-> IF frame.frame_number = 0 THEN "detect" ELSE capability,
     frame_number |-> frame.frame_number]

\* a record of one call in model_log
ModelCall(capability, frame) == [capability |-> capability, frame_number |-> frame.frame_number]

\* every scene of up to two boxes
TrackOutputs == {NoIdsOutput} \cup {TrackOutput(bs) : bs \in SeqsUpTo2(TrackedBoxes)}

(***************************************************************************)
(* detector.py / tracker.py: class mapping and box conversion              *)
(***************************************************************************)
\* _COCO_TO_DXD.get(coco_name)
CocoToDxd(coco_name) ==
    CASE coco_name \in {"person"} -> Some("person")
      [] coco_name \in {"car", "motorcycle", "bus", "truck"} -> Some("vehicle")
      [] coco_name \in {"knife"} -> Some("weapon")
      [] coco_name \in {"backpack", "suitcase", "handbag"} -> Some("package")
      [] OTHER -> None

\* DetectionConfig.target_classes default
DefaultTargetClasses == {"person", "vehicle", "weapon", "package"}

\* a slip: only the missing mapping is tested, not the target classes
IsMappedClass(coco_name, target_classes) == CocoToDxd(coco_name) # None

\* not (dxd_class is None or dxd_class not in target_classes)
IsTargetClass(coco_name, target_classes) ==
    /\ CocoToDxd(coco_name) # None
    /\ CocoToDxd(coco_name)[1] \in target_classes

\* BoundingBox(x=int(x1), y=int(y1), width=int(x2 - x1), height=int(y2 - y1))
BoundingBox(xyxy) ==
    [x |-> xyxy[1], y |-> xyxy[2], width |-> xyxy[3] - xyxy[1], height |-> xyxy[4] - xyxy[2]]

(***************************************************************************)
(* ObjectTracker                                                           *)
(***************************************************************************)
\* TrackedDetection built for one surviving box, lines 121-131
TrackedDetection(frame, tb) ==
    [track_id |-> tb.id,
     class_name |-> CocoToDxd(tb.box.cls)[1],
     confidence |-> tb.box.conf,
     bbox |-> BoundingBox(tb.box.xyxy),
     frame_number |-> frame.frame_number,
     timestamp_ms |-> frame.timestamp_ms]

\* the tuple appended to self._trajectories[track_id], lines 134-136
TrajectoryEntry(frame, tb) ==
    [frame_number |-> frame.frame_number,
     class_name |-> CocoToDxd(tb.box.cls)[1],
     confidence |-> tb.box.conf,
     bbox |-> BoundingBox(tb.box.xyxy)]

\* a slip: the identity's list is replaced by the new entry
AccumulateOverwrite(traj, id, entry) ==
    [k \in DOMAIN traj \cup {id} |-> IF k = id THEN <<entry>> ELSE traj[k]]

\* defaultdict(list): self._trajectories[track_id].append(entry)
Accumulate(traj, id, entry) ==
    IF id \in DOMAIN traj
    THEN [traj EXCEPT ![id] = Append(@, entry)]
    ELSE [k \in DOMAIN traj \cup {id} |-> IF k = id THEN <<entry>> ELSE traj[k]]

\* the loop over boxes, lines 102-136, from box i on
RECURSIVE TrackBoxesFrom(_, _, _, _, _, _)
TrackBoxesFrom(i, boxes, frame, target_classes, tracked, traj) ==
    IF i > Len(boxes)
    THEN [tracked |-> tracked, trajectories |-> traj]
    ELSE IF ~IsTargetClass(boxes[i].box.cls, target_classes)
         THEN TrackBoxesFrom(i + 1, boxes, frame, target_classes, tracked, traj)
         ELSE TrackBoxesFrom(i + 1, boxes, frame, target_classes,
                             Append(tracked, TrackedDetection(frame, boxes[i])),
                             Accumulate(traj, boxes[i].id, TrajectoryEntry(frame, boxes[i])))

\* track_frame: the FrameTracking returned and the trajectories after the call
TrackFrame(frame, output, target_classes, traj) ==
    LET r == IF output.has_ids
             THEN TrackBoxesFrom(1, output.boxes, frame, target_classes, <<>>, traj)
             ELSE [tracked |-> <<>>, trajectories |-> traj]
    IN  [frame_tracking |-> [frame_number |-> frame.frame_number,
                             timestamp_ms |-> frame.timestamp_ms,
                             tracked_detections |-> r.tracked],
         trajectories |-> r.trajectories]

SetMin(S) == CHOOSE m \in S : \A x \in S : m <= x

SetMax(S) == CHOOSE m \in S : \A x \in S : x <= m

RECURSIVE SortedIdsDescending(_)
RECURSIVE SortedIds(_)
\* a slip: the track ids in descending order
SortedIdsDescending(S) ==
    IF S = {} THEN <<>> ELSE <<SetMax(S)>> \o SortedIdsDescending(S \ {SetMax(S)})

\* sorted(self._trajectories.items()): the track ids in ascending order
SortedIds(S) == IF S = {} THEN <<>> ELSE <<SetMin(S)>> \o SortedIds(S \ {SetMin(S)})

RECURSIVE SumSeq(_)
SumSeq(q) == IF q = <<>> THEN 0 ELSE q[1] + SumSeq(Tail(q))

\* classes.count(c)
CountOf(classes, c) == Cardinality({i \in 1..Len(classes) : classes[i] = c})

\* max(set(classes), key=classes.count): the first class of maximal count in the
\* set's iteration order, which for strings follows the process's hash seed;
\* order is that iteration order, a sequence holding every class once
MajorityClass(classes, order) ==
    LET best == SetMax({CountOf(classes, classes[i]) : i \in 1..Len(classes)})
        first == SetMin({k \in 1..Len(order) : CountOf(classes, order[k]) = best})
    IN  order[first]

\* Python's true division: a ZeroDivisionError when the divisor is 0
DivisionByZero == [num |-> 0, den |-> 0]

PyDiv(n, d) == IF d = 0 THEN DivisionByZero ELSE Rat(n, d)

\* a slip: total_frames taken as the span of frames
TrackTotalFramesSpan(entries) ==
    SetMax({entries[i].frame_number : i \in 1..Len(entries)})
        - SetMin({entries[i].frame_number : i \in 1..Len(entries)}) + 1

\* total_frames=len(entries)
TrackTotalFrames(entries) == Len(entries)

\* a slip: the frames between the first and the last observation are filled in
TrackFrameNumbersFilled(entries) ==
    LET observed == {entries[i].frame_number : i \in 1..Len(entries)}
    IN  [i \in 1..(SetMax(observed) - SetMin(observed) + 1) |-> SetMin(observed) + i - 1]

\* frame_numbers = [e[0] for e in entries]
TrackFrameNumbers(entries) == [i \in 1..Len(entries) |-> entries[i].frame_number]

\* one ObjectTrajectory, lines 162-183
ObjectTrajectory(track_id, entries, order) ==
    LET frame_numbers == TrackFrameNumbers(entries)
        classes == [i \in 1..Len(entries) |-> entries[i].class_name]
        confs == [i \in 1..Len(entries) |-> entries[i].confidence]
        bboxes == [i \in 1..Len(entries) |-> entries[i].bbox]
    IN  [track_id |-> track_id,
         class_name |-> MajorityClass(classes, order),
         first_frame |-> SetMin({frame_numbers[i] : i \in 1..Len(frame_numbers)}),
         last_frame |-> SetMax({frame_numbers[i] : i \in 1..Len(frame_numbers)}),
         total_frames |-> TrackTotalFrames(entries),
         avg_confidence |-> PyDiv(SumSeq(confs), Len(confs)),
         positions |-> bboxes,
         frame_numbers |-> frame_numbers]

\* build_trajectories: one trajectory per id with entries, in ascending id order
BuildTrajectories(traj, order) ==
    LET ids == SortedIds({id \in DOMAIN traj : traj[id] # <<>>})
    IN  [k \in 1..Len(ids) |-> ObjectTrajectory(ids[k], traj[ids[k]], order)]

\* the iteration orders a set of class names can have
ClassOrders == {<<"person", "vehicle">>, <<"vehicle", "person">>}

(***************************************************************************)
(* SpecTracker: an ObjectTracker fed frames by its owner, one track_frame  *)
(* call at a time, the returned FrameTracking collected in a list.         *)
(***************************************************************************)
MaxCalls == 2

CallFrameNumbers == {0, 2}

\* a tracker built with a DetectionConfig of the given target classes
InitTrackerWith(target_classes) ==
    /\ config = [target_classes |-> target_classes]
    /\ video = [fps |-> TrackerSourceFps, total_frames |-> 0]
    /\ cap = NoCapture
    /\ cap_pos = 0
    /\ frame_number = 0
    /\ next_target_ms = F64Zero
    /\ emitted = <<>>
    /\ pc = "tracker"
    /\ error = None
    /\ mode = "TRACKER"
    /\ frames_extracted = 0
    /\ sample_frame = None
    /\ sample_path = None
    /\ frame_results = <<>>
    /\ trajectories = <<>>
    /\ result = None
    /\ model_log = <<>>
    /\ fresh_tracker = <<>>

InitTracker == InitTrackerWith(DefaultTargetClasses)

\* tracker.track_frame(frame) on frame n showing the scene; result becomes the
\* given record of the call
TrackFrameOn(n, scene, returned) ==
    LET frame == FrameData(n, video.fps, video.fps)
        r == TrackFrame(frame, ModelTrack(scene, Len(model_log)),
                        config.target_classes, trajectories)
        f == TrackFrame(frame, ModelTrack(scene, Len(frame_results)),
                        config.target_classes, fresh_tracker)
    IN  /\ frame_results' = Append(frame_results, r.frame_tracking)
        /\ trajectories' = r.trajectories
        /\ fresh_tracker' = f.trajectories
        /\ model_log' = Append(model_log, ModelCall("track", frame))
        /\ result' = returned
        /\ UNCHANGED <<config, video, cap, readerVars, next_target_ms, emitted, pc,
                       error, mode, frames_extracted, sample_frame, sample_path>>

\* tracker.track_frame(frame) on any frame showing any scene
TrackFrameCall ==
    /\ pc = "tracker"
    /\ Len(model_log) < MaxCalls
    /\ \E n \in CallFrameNumbers, scene \in TrackOutputs : TrackFrameOn(n, scene, None)

\* tracker.reset(), the owner starting the list of a new video
Reset ==
    /\ pc = "tracker"
    /\ trajectories' = <<>>
    /\ frame_results' = <<>>
    /\ fresh_tracker' = <<>>
    /\ result' = None
    /\ UNCHANGED <<config, video, cap, readerVars, next_target_ms, emitted, pc, error,
                   mode, frames_extracted, sample_frame, sample_path, model_log>>

NextTracker == TrackFrameCall \/ Reset

SpecTracker == InitTracker /\ [][NextTracker]_vars

(***************************************************************************)
(* YOLODetector.detect_frame                                               *)
(***************************************************************************)
\* Detection built for one surviving box, lines 74-88
Detection(frame, b) ==
    [class_name |-> CocoToDxd(b.cls)[1],
     confidence |-> b.conf,
     bbox |-> BoundingBox(b.xyxy),
     frame_number |-> frame.frame_number,
     timestamp_ms |-> frame.timestamp_ms]

\* the loop over results[0].boxes, lines 66-88
RECURSIVE DetectBoxesFrom(_, _, _, _)
DetectBoxesFrom(i, boxes, frame, target_classes) ==
    IF i > Len(boxes) THEN <<>>
    ELSE IF ~IsTargetClass(boxes[i].cls, target_classes)
         THEN DetectBoxesFrom(i + 1, boxes, frame, target_classes)
         ELSE <<Detection(frame, boxes[i])>> \o DetectBoxesFrom(i + 1, boxes, frame, target_classes)

DetectFrame(frame, boxes, target_classes) ==
    [frame_number |-> frame.frame_number,
     timestamp_ms |-> frame.timestamp_ms,
     detections |-> DetectBoxesFrom(1, boxes, frame, target_classes)]

(***************************************************************************)
(* The summaries                                                           *)
(***************************************************************************)
\* FrameDetections.count / FrameTracking.count
DetCount(fd) == Len(fd.detections)

\* a slip: count tells whether the frame has tracked detections, not how many
TrkCountAny(ft) == IF ft.tracked_detections # <<>> THEN 1 ELSE 0

TrkCount(ft) == Len(ft.tracked_detections)

\* a slip: frames_with counts the frames holding more than one detection
DetFramesWithMany(frame_detections) ==
    Cardinality({i \in 1..Len(frame_detections) : DetCount(frame_detections[i]) > 1})

\* if fd.count > 0: frames_with += 1
DetFramesWith(frame_detections) ==
    Cardinality({i \in 1..Len(frame_detections) : DetCount(frame_detections[i]) > 0})

\* a slip: every frame is counted as a frame with tracks
TrkFramesWithAll(frame_trackings) == Len(frame_trackings)

\* sum(1 for ft in frame_trackings if ft.count > 0)
TrkFramesWith(frame_trackings) ==
    Cardinality({i \in 1..Len(frame_trackings) : TrkCount(frame_trackings[i]) > 0})

\* every detection of the run, frame by frame
RECURSIVE AllDetections(_)
AllDetections(frame_detections) ==
    IF frame_detections = <<>> THEN <<>>
    ELSE frame_detections[1].detections \o AllDetections(Tail(frame_detections))

\* a dict of counts keyed by the class names of the records in q
CountByClass(q) ==
    [c \in {q[i].class_name : i \in 1..Len(q)} |->
        Cardinality({i \in 1..Len(q) : q[i].class_name = c})]

\* a slip: the mean is taken without the guard
AvgConfidenceUnguarded(confidence_sum, total) == PyDiv(confidence_sum, total)

\* confidence_sum / total if total > 0 else 0.0
AvgConfidence(confidence_sum, total) ==
    IF total > 0 THEN PyDiv(confidence_sum, total) ELSE Rat(0, 1)

\* VisionPipeline._build_summary
BuildDetectionSummary(frame_detections, total_frames) ==
    LET dets == AllDetections(frame_detections)
        total == Len(dets)
        confidence_sum == SumSeq([i \in 1..total |-> dets[i].confidence])
        frames_with == DetFramesWith(frame_detections)
    IN  [total_detections |-> total,
         by_class |-> CountByClass(dets),
         avg_confidence |-> AvgConfidence(confidence_sum, total),
         frames_with_detections |-> frames_with,
         frames_without_detections |-> total_frames - frames_with]

\* sum(track_lengths) / len(track_lengths) if track_lengths else 0.0
AvgTrackLength(track_lengths) ==
    IF track_lengths # <<>> THEN PyDiv(SumSeq(track_lengths), Len(track_lengths)) ELSE Rat(0, 1)

\* max(track_lengths) if track_lengths else 0
LongestTrack(track_lengths) ==
    IF track_lengths # <<>>
    THEN SetMax({track_lengths[i] : i \in 1..Len(track_lengths)})
    ELSE 0

\* a slip: by_class counts every observation of every trajectory
TrackByClassPerDetection(trajs) ==
    [c \in {trajs[i].class_name : i \in 1..Len(trajs)} |->
        SumSeq([i \in 1..Len(trajs) |->
                   IF trajs[i].class_name = c THEN trajs[i].total_frames ELSE 0])]

\* by_class[traj.class_name] = by_class.get(traj.class_name, 0) + 1, per trajectory
TrackByClass(trajs) == CountByClass(trajs)

\* ObjectTracker.build_summary
BuildTrackingSummary(frame_trackings, total_frames, traj, order) ==
    LET trajs == BuildTrajectories(traj, order)
        track_lengths == [i \in 1..Len(trajs) |-> trajs[i].total_frames]
        frames_with == TrkFramesWith(frame_trackings)
    IN  [total_unique_objects |-> Len(trajs),
         by_class |-> TrackByClass(trajs),
         avg_track_length |-> AvgTrackLength(track_lengths),
         longest_track |-> LongestTrack(track_lengths),
         total_detections |-> SumSeq([i \in 1..Len(frame_trackings) |->
                                          TrkCount(frame_trackings[i])]),
         frames_with_tracks |-> frames_with,
         frames_without_tracks |-> total_frames - frames_with]

(***************************************************************************)
(* VisionPipeline.process_video                                            *)
(***************************************************************************)
\* the model's per-frame outputs in a run: at most one box, or the two-object scene
RunDetectOutputs ==
    SeqsUpTo1(ModelBoxes)
        \cup {<<[cls |-> "person", conf |-> 92, xyxy |-> <<50, 80, 200, 400>>],
                [cls |-> "car", conf |-> 78, xyxy |-> <<400, 200, 600, 350>>]>>}

RunTrackOutputs ==
    {NoIdsOutput}
        \cup {TrackOutput(bs) : bs \in SeqsUpTo1(TrackedBoxes)}
        \cup {TrackOutput(<<[box |-> [cls |-> "person", conf |-> 92,
                                      xyxy |-> <<50, 80, 200, 400>>], id |-> 1],
                            [box |-> [cls |-> "car", conf |-> 78,
                                      xyxy |-> <<400, 200, 600, 350>>], id |-> 2]>>)}

(***************************************************************************)
(* The tracker's queries                                                   *)
(***************************************************************************)
\* a slip: the query takes the entries out of the map as it reads them
MapDrainedByQuery(traj) == <<>>

\* self._trajectories after build_trajectories: the loop reads
\* self._trajectories.items() and builds new lists, it assigns nothing
MapAfterQuery(traj) == traj

\* tracker.build_trajectories()
BuildTrajectoriesCall ==
    /\ pc = "tracker"
    /\ \E order \in ClassOrders :
           result' = Some([query |-> "build_trajectories", order |-> order,
                           value |-> BuildTrajectories(trajectories, order)])
    /\ trajectories' = MapAfterQuery(trajectories)
    /\ UNCHANGED <<config, video, cap, readerVars, next_target_ms, emitted, pc, error,
                   mode, frames_extracted, sample_frame, sample_path, frame_results,
                   model_log, fresh_tracker>>

\* tracker.build_summary(frame_trackings, total_frames) on the frames fed so far
BuildSummaryCall ==
    /\ pc = "tracker"
    /\ \E order \in ClassOrders :
           result' = Some([query |-> "build_summary", order |-> order,
                           value |-> BuildTrackingSummary(frame_results, Len(frame_results),
                                                          trajectories, order)])
    /\ trajectories' = MapAfterQuery(trajectories)
    /\ UNCHANGED <<config, video, cap, readerVars, next_target_ms, emitted, pc, error,
                   mode, frames_extracted, sample_frame, sample_path, frame_results,
                   model_log, fresh_tracker>>

\* tracker.track_frame(frame) on the next frame of a run; result records the
\* call and what the model reported to it
TrackNextFrame ==
    /\ pc = "tracker"
    /\ Len(model_log) < MaxRunFrames
    /\ \E scene \in RunTrackOutputs :
           TrackFrameOn(Len(model_log), scene,
                        Some([query |-> "track_frame",
                              output |-> ModelTrack(scene, Len(model_log))]))

\* detector.detect_frame(frame) of a detector with the same DetectionConfig, on
\* a frame of the run; result records the boxes the model reported and the
\* FrameDetections returned
DetectFrameCall ==
    /\ pc = "tracker"
    /\ \E n \in 0..(MaxRunFrames - 1), boxes \in RunDetectOutputs :
           result' = Some([query |-> "detect_frame", boxes |-> boxes,
                           value |-> DetectFrame(FrameData(n, video.fps, video.fps), boxes,
                                                 config.target_classes)])
    /\ UNCHANGED <<config, video, cap, readerVars, next_target_ms, emitted, pc, error,
                   mode, frames_extracted, sample_frame, sample_path, frame_results,
                   trajectories, model_log, fresh_tracker>>

\* DetectionConfig.target_classes: the default, or persons only
TargetClassSets == {DefaultTargetClasses, {"person"}}

InitQueries == \E target_classes \in TargetClassSets : InitTrackerWith(target_classes)

NextQueries ==
    \/ TrackNextFrame
    \/ Reset
    \/ BuildTrajectoriesCall
    \/ BuildSummaryCall
    \/ DetectFrameCall

\* SpecQueries: an ObjectTracker fed the frames of a run in order and queried
\* at any point, and a YOLODetector of the same configuration asked about frames
SpecQueries == InitQueries /\ [][NextQueries]_vars

\* a slip: detection is tested before tracking
SelectModeDetectionFirst(cfg) ==
    IF cfg.detection_enabled THEN "DETECT"
    ELSE IF cfg.tracking_enabled THEN "TRACK"
    ELSE "EXTRACT_ONLY"

\* three-way routing, lines 48-58
SelectMode(cfg) ==
    IF cfg.tracking_enabled THEN "TRACK"
    ELSE IF cfg.detection_enabled THEN "DETECT"
    ELSE "EXTRACT_ONLY"

\* save_sample_frame's return value: sample_frame_{frame_number}.png
SamplePath(frame) == <<"sample_frame", frame.frame_number>>

\* a slip: the frame counter is not consulted
RetainSampleLatest(count, save_sample_frame, current, candidate) ==
    IF save_sample_frame THEN candidate ELSE current

\* if frames_extracted == 0 and save_sample_frame: <sample> = <this frame's>
RetainSample(count, save_sample_frame, current, candidate) ==
    IF count = 0 /\ save_sample_frame THEN candidate ELSE current

\* ExtractionConfig.supported_formats default
DefaultSupportedFormats == {".mp4", ".mov", ".avi", ".mkv"}

\* the files a run is pointed at: whether the path is a file, its suffix as
\* written, whether the decoder opens it
VideoFiles ==
    {[is_file |-> TRUE,  suffix |-> ".MOV", decodable |-> TRUE],
     [is_file |-> FALSE, suffix |-> ".mp4", decodable |-> FALSE],
     [is_file |-> FALSE, suffix |-> ".txt", decodable |-> FALSE],
     [is_file |-> TRUE,  suffix |-> ".txt", decodable |-> TRUE],
     [is_file |-> TRUE,  suffix |-> ".mp4", decodable |-> FALSE]}

\* str.lower() on the suffixes in use
Lower(suffix) ==
    CASE suffix = ".MOV" -> ".mov"
      [] suffix = ".MP4" -> ".mp4"
      [] OTHER -> suffix

\* a slip: the format is validated before the file's existence
OpenOutcomeFormatFirst(file, supported_formats) ==
    IF Lower(file.suffix) \notin supported_formats
    THEN Some([type |-> "UnsupportedFormatError", site |-> "VideoReader",
               supported |-> supported_formats])
    ELSE IF ~file.is_file
    THEN Some([type |-> "VideoNotFoundError", site |-> "VideoReader"])
    ELSE IF ~file.decodable
    THEN Some([type |-> "VideoReadError", site |-> "VideoReader"])
    ELSE None

\* VideoReader.__init__: the exception it raises, or None when the reader opens
OpenOutcome(file, supported_formats) ==
    IF ~file.is_file
    THEN Some([type |-> "VideoNotFoundError", site |-> "VideoReader"])
    ELSE IF Lower(file.suffix) \notin supported_formats
    THEN Some([type |-> "UnsupportedFormatError", site |-> "VideoReader",
               supported |-> supported_formats])
    ELSE IF ~file.decodable
    THEN Some([type |-> "VideoReadError", site |-> "VideoReader"])
    ELSE None

InitPipeline ==
    /\ \E r \in RunRates :
        /\ config \in [target_fps : {r[1]},
                       save_sample_frame : BOOLEAN,
                       detection_enabled : BOOLEAN,
                       tracking_enabled : BOOLEAN,
                       target_classes : {DefaultTargetClasses},
                       supported_formats : {DefaultSupportedFormats},
                       save_detections_json : BOOLEAN,
                       detection_save_annotated_frame : BOOLEAN,
                       save_tracking_json : BOOLEAN,
                       tracking_save_annotated_frame : BOOLEAN]
        /\ video \in [fps : {r[2]}, total_frames : 0..MaxRunFrames, file : VideoFiles]
    /\ cap = NoCapture
    /\ cap_pos = 0
    /\ frame_number = 0
    /\ next_target_ms = F64Zero
    /\ emitted = <<>>
    /\ pc = "idle"
    /\ error = None
    /\ mode = "EXTRACT_ONLY"
    /\ frames_extracted = 0
    /\ sample_frame = None
    /\ sample_path = None
    /\ frame_results = <<>>
    /\ trajectories = <<>>
    /\ result = None
    /\ model_log = <<>>
    /\ fresh_tracker = <<>>

\* a slip: the tracker of the previous run is kept, its identity map with it
KeptIdentityMap(previous) == previous

\* tracker = ObjectTracker(...): self._trajectories = defaultdict(list), whatever
\* the tracker of a previous run held
FreshIdentityMap(previous) == <<>>

\* process_video(v) up to the loop: the reader opens, the extractor is built, the
\* route is chosen, the route's locals (and in TRACK a fresh tracker) are set up
BeginRun(v) ==
    /\ OpenOutcome(v.file, config.supported_formats) = None
    /\ cap' = "open"
    /\ mode' = SelectMode(config)
    /\ cap_pos' = 0
    /\ frame_number' = 0
    /\ next_target_ms' = F64Zero
    /\ emitted' = <<>>
    /\ frames_extracted' = 0
    /\ sample_frame' = None
    /\ sample_path' = None
    /\ frame_results' = <<>>
    /\ trajectories' = FreshIdentityMap(trajectories)
    /\ model_log' = <<>>
    /\ pc' = "created"
    /\ UNCHANGED <<config, error, fresh_tracker>>

\* the first process_video call of a pipeline
ProcessVideo ==
    /\ pc = "idle"
    /\ BeginRun(video)
    /\ UNCHANGED <<video, result>>

\* the video a pipeline is given after its first
SecondVideoFile == [is_file |-> TRUE, suffix |-> ".mp4", decodable |-> TRUE]

\* the frame counts of the second video: none, or one frame
SecondVideoFrames == {0, 1}

\* the owner of a VisionPipeline whose tracking run has returned with identities
\* accumulated calls process_video again, on another video of the same rate
ProcessNextVideo ==
    /\ pc = "returned"
    /\ mode = "TRACK"
    /\ trajectories # <<>>
    /\ video.file # SecondVideoFile
    /\ \E n \in SecondVideoFrames :
           video' = [fps |-> video.fps, total_frames |-> n, file |-> SecondVideoFile]
    /\ BeginRun(video')
    /\ result' = None

\* VideoReader(video_path, ...) raises: the error leaves process_video
OpenFails ==
    /\ pc = "idle"
    /\ OpenOutcome(video.file, config.supported_formats) # None
    /\ error' = OpenOutcome(video.file, config.supported_formats)
    /\ pc' = "raised"
    /\ UNCHANGED <<config, video, cap, readerVars, next_target_ms, emitted, runVars>>

\* a slip: the loop keeps handing over the first frame
CurrentFrameFirst == emitted[1]

\* the frame the generator has just yielded to the loop body
CurrentFrame == emitted[Len(emitted)]

\* extract_all's loop body, lines 75-80
ExtractAllBody ==
    /\ pc = "yielded"
    /\ mode = "EXTRACT_ONLY"
    /\ sample_path' = RetainSample(frames_extracted, config.save_sample_frame,
                                   sample_path, Some(SamplePath(CurrentFrame)))
    /\ frames_extracted' = frames_extracted + 1
    /\ pc' = LoopPc
    /\ UNCHANGED <<config, video, cap, readerVars, next_target_ms, emitted, error,
                   mode, sample_frame, frame_results, trajectories, result,
                   model_log, fresh_tracker>>

\* _process_with_detection's loop body, lines 195-200
DetectBody ==
    /\ pc = "yielded"
    /\ mode = "DETECT"
    /\ sample_frame' = RetainSample(frames_extracted, config.save_sample_frame,
                                    sample_frame, Some(CurrentFrame))
    /\ \E boxes \in RunDetectOutputs :
        frame_results' = Append(frame_results,
                                DetectFrame(CurrentFrame, boxes, config.target_classes))
    /\ model_log' = Append(model_log, ModelCall("detect", CurrentFrame))
    /\ frames_extracted' = frames_extracted + 1
    /\ pc' = LoopPc
    /\ UNCHANGED <<config, video, cap, readerVars, next_target_ms, emitted, error,
                   mode, sample_path, trajectories, result, fresh_tracker>>

\* _process_with_tracking's loop body, lines 74-79
TrackBody ==
    /\ pc = "yielded"
    /\ mode = "TRACK"
    /\ sample_frame' = RetainSample(frames_extracted, config.save_sample_frame,
                                    sample_frame, Some(CurrentFrame))
    /\ \E scene \in RunTrackOutputs :
        LET r == TrackFrame(CurrentFrame, ModelTrack(scene, Len(model_log)),
                            config.target_classes, trajectories)
        IN  /\ frame_results' = Append(frame_results, r.frame_tracking)
            /\ trajectories' = r.trajectories
    /\ model_log' = Append(model_log, ModelCall("track", CurrentFrame))
    /\ frames_extracted' = frames_extracted + 1
    /\ pc' = LoopPc
    /\ UNCHANGED <<config, video, cap, readerVars, next_target_ms, emitted, error,
                   mode, sample_path, result, fresh_tracker>>

\* the model call of the loop body raises
ModelFails ==
    /\ pc = "yielded"
    /\ mode \in {"DETECT", "TRACK"}
    /\ Raise("VisionModelFailure", "model")
    /\ UNCHANGED <<config, video, readerVars, next_target_ms, emitted, runVars>>

Return(r) ==
    /\ result' = Some(r)
    /\ pc' = "returned"
    /\ cap' = Released(cap)
    /\ UNCHANGED error

\* models/frame.py: ExtractionResult
ExtractionResult(count, fps, sample) ==
    [type |-> "ExtractionResult",
     frames_extracted |-> count,
     extraction_fps |-> fps,
     sample_frame_path |-> sample]

\* the ProcessingResult built at lines 232-241
ProcessingResult(count, fps, sample, summary, detections_path, annotated_path) ==
    [type |-> "ProcessingResult",
     frames_extracted |-> count,
     extraction_fps |-> fps,
     sample_frame_path |-> sample,
     detection_enabled |-> TRUE,
     detection_summary |-> summary,
     detections_path |-> detections_path,
     annotated_frame_path |-> annotated_path]

\* a slip: a run without frames answers with the bare extraction result
TrackingResultBareWhenEmpty(count, fps, sample, summary, tracking_path, annotated_path) ==
    IF count = 0 THEN ExtractionResult(count, fps, sample)
    ELSE [type |-> "TrackingResult",
          frames_extracted |-> count,
          extraction_fps |-> fps,
          sample_frame_path |-> sample,
          tracking_enabled |-> TRUE,
          tracking_summary |-> summary,
          tracking_path |-> tracking_path,
          annotated_frame_path |-> annotated_path]

\* the TrackingResult built at lines 113-122
TrackingResult(count, fps, sample, summary, tracking_path, annotated_path) ==
    [type |-> "TrackingResult",
     frames_extracted |-> count,
     extraction_fps |-> fps,
     sample_frame_path |-> sample,
     tracking_enabled |-> TRUE,
     tracking_summary |-> summary,
     tracking_path |-> tracking_path,
     annotated_frame_path |-> annotated_path]

\* extract_all after its loop, lines 82-95, and process_video's return
FinishExtractOnly ==
    /\ pc = "finish"
    /\ mode = "EXTRACT_ONLY"
    /\ Return(ExtractionResult(frames_extracted,
                               ClampedTargetFps(config.target_fps, video.fps),
                               sample_path))
    /\ UNCHANGED <<config, video, readerVars, next_target_ms, emitted,
                   mode, frames_extracted, sample_frame, sample_path, frame_results,
                   trajectories, model_log, fresh_tracker>>

\* sample_path = save_sample_frame(sample_frame) if sample_frame is not None
SavedSamplePath(frame) == IF frame # None THEN Some(SamplePath(frame[1])) ELSE None

\* a slip: the export is written whatever its toggle says
SavedJsonPathAlways(toggle, path) == Some(path)

\* path = None; if <toggle>: path = _save_*_json(...)
SavedJsonPath(toggle, path) == IF toggle THEN Some(path) ELSE None

\* path = None; if <toggle> and sample_frame is not None: path = _save_annotated_*(...)
SavedAnnotatedPath(toggle, frame, path) ==
    IF toggle /\ frame # None THEN Some(path) ELSE None

\* _process_with_detection after its loop, lines 202-241
FinishDetect ==
    /\ pc = "finish"
    /\ mode = "DETECT"
    /\ LET summary == BuildDetectionSummary(frame_results, frames_extracted)
       IN  IF summary.avg_confidence = DivisionByZero
           THEN Raise("ZeroDivisionError", "_build_summary") /\ UNCHANGED result
           ELSE Return(ProcessingResult(
                    frames_extracted,
                    ClampedTargetFps(config.target_fps, video.fps),
                    SavedSamplePath(sample_frame),
                    summary,
                    SavedJsonPath(config.save_detections_json, "detections.json"),
                    SavedAnnotatedPath(config.detection_save_annotated_frame, sample_frame,
                                       "annotated_sample.png")))
    /\ UNCHANGED <<config, video, readerVars, next_target_ms, emitted,
                   mode, frames_extracted, sample_frame, sample_path, frame_results,
                   trajectories, model_log, fresh_tracker>>

\* _process_with_tracking after its loop, lines 81-122
FinishTrack ==
    /\ pc = "finish"
    /\ mode = "TRACK"
    /\ \E order \in ClassOrders :
        LET summary == BuildTrackingSummary(frame_results, frames_extracted,
                                            trajectories, order)
        IN  IF summary.avg_track_length = DivisionByZero
            THEN Raise("ZeroDivisionError", "build_summary") /\ UNCHANGED result
            ELSE Return(TrackingResult(
                     frames_extracted,
                     ClampedTargetFps(config.target_fps, video.fps),
                     SavedSamplePath(sample_frame),
                     summary,
                     SavedJsonPath(config.save_tracking_json, "tracking.json"),
                     SavedAnnotatedPath(config.tracking_save_annotated_frame, sample_frame,
                                        "annotated_tracking.png")))
    /\ UNCHANGED <<config, video, readerVars, next_target_ms, emitted,
                   mode, frames_extracted, sample_frame, sample_path, frame_results,
                   trajectories, model_log, fresh_tracker>>

Next ==
    \/ ProcessVideo
    \/ OpenFails
    \/ ExtractBegin
    \/ PassThroughFrame
    \/ DecimateFrame
    \/ SourceExhausted
    \/ SourceFails
    \/ ExtractAllBody
    \/ DetectBody
    \/ TrackBody
    \/ ModelFails
    \/ FinishExtractOnly
    \/ FinishDetect
    \/ FinishTrack
    \/ ProcessNextVideo

Spec == InitPipeline /\ [][Next]_vars

(***************************************************************************)
(* Claims about the sampler, checked under SpecExtractor                   *)
(***************************************************************************)
\* round(p / q) for p >= 0, q > 0, ties to even as Python's round
RoundDiv(p, q) ==
    LET fl == p \div q
        r2 == 2 * (p % q)
    IN  IF r2 < q THEN fl
        ELSE IF r2 > q THEN fl + 1
        ELSE IF fl % 2 = 0 THEN fl ELSE fl + 1

\* round(D * T) for a source of N = D * F frames: D * T = N * T / F
ExpectedCount == RoundDiv(video.total_frames * config.target_fps, video.fps)

ExtractComplete == pc = "done"

PositiveRates == 0 < config.target_fps /\ config.target_fps <= video.fps

\* C1 as stated: for every native rate F and target rate 0 < T <= F, a complete
\* extraction of N = D*F frames yields round(D*T) +/- 1 frames, the pass-through
\* epsilon included.
C1_CountWithinOneAlways ==
    (ExtractComplete /\ PositiveRates)
        => Abs(Len(emitted) - ExpectedCount) <= 1

\* C1 amended: outside the pass-through epsilon the count is round(D*T) +/- 1;
\* inside it the count is the source's frame count N.
C1_CountWithinOne ==
    (ExtractComplete /\ PositiveRates)
        => IF IsPassThrough(config.target_fps, video.fps)
           THEN Len(emitted) = video.total_frames
           ELSE Abs(Len(emitted) - ExpectedCount) <= 1

C1_Witness ==
    /\ ExtractComplete
    /\ PositiveRates
    /\ ~IsPassThrough(config.target_fps, video.fps)
    /\ Len(emitted) >= 3
    /\ Len(emitted) < video.total_frames

\* C2: the emitted frames have strictly increasing source frame numbers and
\* strictly increasing timestamps, for any target rate.
C2_StrictlyIncreasing ==
    \A i \in 1..Len(emitted) : \A j \in 1..Len(emitted) :
        i < j => /\ emitted[i].frame_number < emitted[j].frame_number
                 /\ F64LT(emitted[i].timestamp_ms, emitted[j].timestamp_ms)

C2_Witness ==
    /\ pc = "decimate"
    /\ Len(emitted) >= 3
    /\ emitted[3].frame_number > 2

ExtractEndedBySampler ==
    \/ pc = "done"
    \/ pc = "raised" /\ error[1].site = "extract"

\* C3: when the clamped target rate is within the epsilon of the native rate,
\* extract() emits every source frame exactly once, in order.
C3_PassThroughLossless ==
    (ExtractEndedBySampler /\ IsPassThrough(config.target_fps, video.fps))
        => /\ Len(emitted) = video.total_frames
           /\ \A i \in 1..Len(emitted) : emitted[i].frame_number = i - 1

\* the methods of the frame source that raise
ReaderSites == {"read_frames", "get_video_info"}

\* C4: the only errors that leave extract() are the frame source's.
C4_OnlySourceErrors == error # None => error[1].site \in ReaderSites

\* a step taken on a released reader
OnReleasedReader == cap = NoCapture /\ vars' # vars

Returned == pc = "returned"

\* the run ended in VideoReader's constructor, before a route was chosen
OpenFailed == pc = "raised" /\ error[1].site = "VideoReader"

\* C5: the route is fixed before any frame is processed, by strict priority:
\* tracking enabled gives a TrackingResult whatever detection says, else
\* detection enabled gives a ProcessingResult, else an ExtractionResult.
C5_ModePriority ==
    LET route == IF config.tracking_enabled THEN <<"TRACK", "TrackingResult">>
                 ELSE IF config.detection_enabled THEN <<"DETECT", "ProcessingResult">>
                 ELSE <<"EXTRACT_ONLY", "ExtractionResult">>
    IN  /\ (pc # "idle" /\ ~OpenFailed) => mode = route[1]
        /\ Returned => result[1].type = route[2]
        /\ (frames_extracted > 0 \/ emitted # <<>>) => pc # "idle"

C5_Witness ==
    /\ Returned
    /\ config.tracking_enabled
    /\ ~config.detection_enabled
    /\ result[1].type = "TrackingResult"
    /\ frames_extracted >= 2

\* C6: with save_sample_frame on, what is retained as the sample is the first
\* frame emitted and stays so; with the option off, or before any frame is
\* counted, nothing is retained; the result's sample_frame_path follows.
C6_SampleIsFirstFrame ==
    LET kept == config.save_sample_frame /\ frames_extracted >= 1
    IN  /\ (pc # "idle" /\ mode = "EXTRACT_ONLY") =>
                /\ sample_frame = None
                /\ sample_path = IF kept THEN Some(<<"sample_frame", emitted[1].frame_number>>)
                                 ELSE None
        /\ (pc # "idle" /\ mode \in {"DETECT", "TRACK"}) =>
                /\ sample_path = None
                /\ sample_frame = IF kept THEN Some(emitted[1]) ELSE None
        /\ Returned =>
                result[1].sample_frame_path =
                    IF kept THEN Some(<<"sample_frame", emitted[1].frame_number>>) ELSE None

C6_Witness ==
    /\ Returned
    /\ mode = "TRACK"
    /\ config.save_sample_frame
    /\ frames_extracted >= 2
    /\ Len(frame_results[2].tracked_detections) > Len(frame_results[1].tracked_detections)
    /\ result[1].sample_frame_path = Some(<<"sample_frame", emitted[1].frame_number>>)

\* C7: in the summary a run returns, frames_with + frames_without is the number
\* of frames extracted, and frames_with is the number of frames whose list of
\* detections (tracks) is not empty.
C7_FramesPartition ==
    /\ (Returned /\ mode = "DETECT") =>
        LET s == result[1].detection_summary
        IN  /\ s.frames_with_detections + s.frames_without_detections
                   = result[1].frames_extracted
            /\ result[1].frames_extracted = Len(emitted)
            /\ s.frames_with_detections =
                   Cardinality({i \in 1..Len(frame_results) :
                                    frame_results[i].detections # <<>>})
            /\ s.frames_without_detections >= 0
    /\ (Returned /\ mode = "TRACK") =>
        LET s == result[1].tracking_summary
        IN  /\ s.frames_with_tracks + s.frames_without_tracks = result[1].frames_extracted
            /\ result[1].frames_extracted = Len(emitted)
            /\ s.frames_with_tracks =
                   Cardinality({i \in 1..Len(frame_results) :
                                    frame_results[i].tracked_detections # <<>>})
            /\ s.frames_without_tracks >= 0

C7_Witness ==
    /\ Returned
    /\ mode = "DETECT"
    /\ result[1].detection_summary.frames_with_detections = 1
    /\ result[1].detection_summary.frames_without_detections >= 1
    /\ \E i \in 1..Len(frame_results) : Len(frame_results[i].detections) = 1

\* C10: with zero detections avg_confidence is 0.0; with zero trajectories
\* avg_track_length is 0.0 and longest_track is 0; building a summary raises
\* nothing, a run of zero frames included.
C10_EmptyAveragesAreZero ==
    /\ (Returned /\ mode = "DETECT" /\ result[1].detection_summary.total_detections = 0)
            => result[1].detection_summary.avg_confidence = [num |-> 0, den |-> 1]
    /\ (Returned /\ mode = "TRACK" /\ result[1].tracking_summary.total_unique_objects = 0)
            => /\ result[1].tracking_summary.avg_track_length = [num |-> 0, den |-> 1]
               /\ result[1].tracking_summary.longest_track = 0
    /\ error # None => error[1].site \notin {"_build_summary", "build_summary"}

C10_Witness ==
    /\ Returned
    /\ mode = "DETECT"
    /\ frames_extracted = 0
    /\ result[1].detection_summary.total_detections = 0
    /\ result[1].detection_summary.avg_confidence = [num |-> 0, den |-> 1]

(***************************************************************************)
(* Claims about the tracker, checked under SpecTracker                     *)
(***************************************************************************)
\* C8: after any sequence of track_frame calls, every trajectory that
\* build_trajectories returns has total_frames = len(positions) =
\* len(frame_numbers), and total_frames >= 1.
C8_TrajectoryLengthsAgree ==
    \A order \in ClassOrders :
        LET trajs == BuildTrajectories(trajectories, order)
        IN  \A k \in 1..Len(trajs) :
                /\ trajs[k].total_frames = Len(trajs[k].positions)
                /\ trajs[k].total_frames = Len(trajs[k].frame_numbers)
                /\ trajs[k].total_frames >= 1

C8_Witness ==
    /\ Len(frame_results) = 2
    /\ \E order \in ClassOrders :
        LET trajs == BuildTrajectories(trajectories, order)
        IN  /\ Len(trajs) = 2
            /\ trajs[1].frame_numbers = <<0, 2>>
            /\ trajs[2].total_frames = 1

\* C9: every trajectory's frame_numbers is strictly ascending, whatever the
\* model reports and in whatever order frames are passed to track_frame.
C9_FrameNumbersAscendingUnique ==
    \A order \in ClassOrders :
        LET trajs == BuildTrajectories(trajectories, order)
        IN  \A k \in 1..Len(trajs) :
                \A i \in 1..Len(trajs[k].frame_numbers) :
                    \A j \in 1..Len(trajs[k].frame_numbers) :
                        i < j => trajs[k].frame_numbers[i] < trajs[k].frame_numbers[j]

\* C11: reset() followed by build_trajectories() gives the empty list, and a
\* tracker that was reset and then fed frames has the trajectories of a freshly
\* constructed tracker fed the same frames.
C11_ResetEqualsFresh ==
    \A order \in ClassOrders :
        /\ frame_results = <<>> => BuildTrajectories(trajectories, order) = <<>>
        /\ BuildTrajectories(trajectories, order) = BuildTrajectories(fresh_tracker, order)

\* the identities a FrameTracking carries
IdsOf(ft) == {ft.tracked_detections[i].track_id : i \in 1..Len(ft.tracked_detections)}

\* the frames fed since construction or the last reset all carry the same set of
\* distinct identities, and were fed in strictly ascending frame order
SameIdentitiesEveryFrame ==
    /\ Len(frame_results) >= 1
    /\ \A i \in 1..Len(frame_results) :
        /\ IdsOf(frame_results[i]) = IdsOf(frame_results[1])
        /\ Len(frame_results[i].tracked_detections) = Cardinality(IdsOf(frame_results[i]))
    /\ \A i \in 1..(Len(frame_results) - 1) :
        frame_results[i].frame_number < frame_results[i + 1].frame_number

\* C12: when the model reports the same K distinct identities on each of N
\* frames f0 < ... < f(N-1), build_trajectories returns exactly K trajectories,
\* each with total_frames = N, first_frame = f0 and last_frame = f(N-1).
C12_SameIdentitiesFullTracks ==
    SameIdentitiesEveryFrame =>
        \A order \in ClassOrders :
            LET trajs == BuildTrajectories(trajectories, order)
                N == Len(frame_results)
            IN  /\ Len(trajs) = Cardinality(IdsOf(frame_results[1]))
                /\ {trajs[k].track_id : k \in 1..Len(trajs)} = IdsOf(frame_results[1])
                /\ \A k \in 1..Len(trajs) :
                    /\ trajs[k].total_frames = N
                    /\ trajs[k].first_frame = frame_results[1].frame_number
                    /\ trajs[k].last_frame = frame_results[N].frame_number

C12_Witness ==
    /\ SameIdentitiesEveryFrame
    /\ Len(frame_results) = 2
    /\ IdsOf(frame_results[1]) = {1, 2}
    /\ Len(BuildTrajectories(trajectories, <<"person", "vehicle">>)) = 2

\* the labels of maximal count in a list of labels
MostFrequent(classes) ==
    {c \in {classes[i] : i \in 1..Len(classes)} :
        \A d \in {classes[i] : i \in 1..Len(classes)} : CountOf(classes, d) <= CountOf(classes, c)}

\* the most frequent label that was observed first
FirstObservedMostFrequent(classes) ==
    classes[SetMin({i \in 1..Len(classes) : classes[i] \in MostFrequent(classes)})]

\* C13: a trajectory's class_name is the most frequent label of the identity's
\* observations, a tie going to the label observed first, whatever the
\* iteration order of the set of labels.
C13_MajorityFirstObserved ==
    \A order \in ClassOrders :
        \A id \in DOMAIN trajectories :
            trajectories[id] # <<>> =>
                LET entries == trajectories[id]
                    classes == [i \in 1..Len(entries) |-> entries[i].class_name]
                IN  ObjectTrajectory(id, entries, order).class_name
                        = FirstObservedMostFrequent(classes)

\* C14 as stated: in TRACK tracking_path is set iff save_tracking_json is on and
\* annotated_frame_path is set iff tracking.save_annotated_frame is on, whatever
\* the other toggles; likewise detections_path and annotated_frame_path in DETECT.
C14_ArtifactsFollowOwnToggle ==
    /\ (Returned /\ mode = "TRACK") =>
            /\ (result[1].tracking_path # None) = config.save_tracking_json
            /\ (result[1].annotated_frame_path # None) = config.tracking_save_annotated_frame
    /\ (Returned /\ mode = "DETECT") =>
            /\ (result[1].detections_path # None) = config.save_detections_json
            /\ (result[1].annotated_frame_path # None) = config.detection_save_annotated_frame

\* C14 amended: the JSON export's path is set iff its own toggle is on; the
\* annotated frame's path is set iff its own toggle is on and a sample frame was
\* retained, that is save_sample_frame is on and a frame was emitted.
C14_ArtifactsFollowToggleAndSample ==
    LET retained == config.save_sample_frame /\ emitted # <<>>
    IN  /\ (Returned /\ mode = "TRACK") =>
            /\ (result[1].tracking_path # None) = config.save_tracking_json
            /\ (result[1].annotated_frame_path # None)
                   = (config.tracking_save_annotated_frame /\ retained)
        /\ (Returned /\ mode = "DETECT") =>
            /\ (result[1].detections_path # None) = config.save_detections_json
            /\ (result[1].annotated_frame_path # None)
                   = (config.detection_save_annotated_frame /\ retained)

C14_Witness ==
    /\ Returned
    /\ mode = "TRACK"
    /\ ~config.save_tracking_json
    /\ config.tracking_save_annotated_frame
    /\ config.detection_enabled
    /\ config.save_detections_json
    /\ ~config.detection_save_annotated_frame
    /\ result[1].tracking_path = None
    /\ result[1].annotated_frame_path # None

\* C17: the result of a run shows its route by its fields: TRACK carries
\* tracking_summary, DETECT carries detection_summary with detection_enabled
\* true, EXTRACT_ONLY carries neither summary; so also with zero frames.
C17_ResultShapesDisjoint ==
    Returned =>
        LET fields == DOMAIN result[1]
        IN  /\ mode = "TRACK" =>
                /\ "tracking_summary" \in fields
                /\ "detection_summary" \notin fields
                /\ "total_unique_objects" \in DOMAIN result[1].tracking_summary
            /\ mode = "DETECT" =>
                /\ "detection_summary" \in fields
                /\ "tracking_summary" \notin fields
                /\ result[1].detection_enabled
                /\ "total_detections" \in DOMAIN result[1].detection_summary
            /\ mode = "EXTRACT_ONLY" =>
                /\ "detection_summary" \notin fields
                /\ "tracking_summary" \notin fields

C17_Witness ==
    /\ Returned
    /\ mode = "TRACK"
    /\ result[1].frames_extracted = 0
    /\ result[1].tracking_summary.total_unique_objects = 0

\* C15: when the frame source or the vision model raises, the run returns no
\* result: the error leaves process_video and nothing built from the frames
\* processed so far is returned.
C15_NoPartialResult ==
    /\ error # None => (pc = "raised" /\ result = None)
    /\ result # None => (pc = "returned" /\ error = None)

C15_Witness ==
    /\ pc = "raised"
    /\ error[1].site = "model"
    /\ frames_extracted >= 1
    /\ frame_results # <<>>
    /\ result = None

\* C16: opening a video ends in exactly one of four outcomes, decided in order:
\* not a file, VideoNotFoundError; else suffix outside the allow-list,
\* UnsupportedFormatError carrying the allow-list; else the decoder does not
\* open it, VideoReadError; else an open reader.
C16_OpenOutcomeOrder ==
    LET f == video.file
        allowed == f.suffix \in {".mp4", ".mov", ".avi", ".mkv", ".MP4", ".MOV"}
        opened == pc # "idle" /\ ~(pc = "raised" /\ error[1].site = "VideoReader")
        failed(type) == pc = "raised" /\ error[1].site = "VideoReader" /\ error[1].type = type
    IN  pc # "idle" =>
            /\ ~f.is_file => failed("VideoNotFoundError")
            /\ (f.is_file /\ ~allowed) =>
                    /\ failed("UnsupportedFormatError")
                    /\ error[1].supported = config.supported_formats
            /\ (f.is_file /\ allowed /\ ~f.decodable) => failed("VideoReadError")
            /\ (f.is_file /\ allowed /\ f.decodable) => opened
            /\ ~opened => (cap = NoCapture /\ emitted = <<>> /\ result = None)

C16_Witness ==
    /\ pc = "raised"
    /\ ~video.file.is_file
    /\ video.file.suffix = ".txt"
    /\ error[1].type = "VideoNotFoundError"

\* the capability the route uses, or None for extraction only
RouteCapability(m) ==
    IF m = "TRACK" THEN Some("track") ELSE IF m = "DETECT" THEN Some("detect") ELSE None

\* C19: once a run has chosen its mode the mode never changes, and every call
\* the vision model receives in the run goes through the capability of that
\* mode: track in TRACK, detect in DETECT, no call in EXTRACT_ONLY.
C19_ModeFixedForRun ==
    [][/\ pc # "idle" => mode' = mode
       /\ \A i \in 1..Len(model_log') :
            RouteCapability(mode') = Some(model_log'[i].capability)]_vars

C19_Witness ==
    /\ Returned
    /\ mode = "DETECT"
    /\ config.tracking_save_annotated_frame
    /\ Len(model_log) >= 2
    /\ model_log[1].capability = "detect"
    /\ model_log[2].capability = "detect"

\* C20: in DETECT and TRACK every sampled frame goes to the vision model once,
\* in strictly ascending frame order, and the list of per-frame results holds
\* one record per sampled frame in that order: its length is frames_extracted
\* and record i carries the frame index of the i-th sampled frame.
C20_OneResultPerSampledFrame ==
    (pc # "idle" /\ mode \in {"DETECT", "TRACK"}) =>
        /\ Len(frame_results) = frames_extracted
        /\ Len(model_log) = frames_extracted
        /\ Len(emitted) - frames_extracted \in {0, 1}
        /\ Len(emitted) > frames_extracted => pc \in {"yielded", "raised"}
        /\ pc \in {"finish", "returned"} => frames_extracted = Len(emitted)
        /\ \A i \in 1..frames_extracted :
            /\ frame_results[i].frame_number = emitted[i].frame_number
            /\ model_log[i].frame_number = emitted[i].frame_number
        /\ \A i \in 1..(Len(model_log) - 1) :
            model_log[i].frame_number < model_log[i + 1].frame_number
        /\ Returned => result[1].frames_extracted = Len(frame_results)

C20_Witness ==
    /\ Returned
    /\ mode = "TRACK"
    /\ Len(frame_results) = 2
    /\ frame_results[2].frame_number = 2
    /\ model_log[2].frame_number = 2

(***************************************************************************)
(* The sampler's schedule, checked under SpecExtractor                     *)
(***************************************************************************)
\* the smallest n with n * q >= p, for p >= 0 and q > 0
CeilDiv(p, q) == (p + q - 1) \div q

\* the first source frame whose timestamp index / F * 1000 is at or past
\* k * 1000 / T': the smallest index with index * T' >= k * F
FirstFrameAtTarget(k, target_fps, source_fps) == CeilDiv(k * source_fps, target_fps)

Decimating ==
    /\ pc \in {"decimate", "done"}
    /\ 0 < config.target_fps
    /\ config.target_fps < video.fps
    /\ ~IsPassThrough(config.target_fps, video.fps)

\* the next target after the emissions so far is their number times the interval
TargetIsMultipleOfInterval ==
    next_target_ms = F64Mul(F64FromInt(Len(emitted)), TargetIntervalMs(config.target_fps))

\* of the frames read so far, the emitted ones are the first frames at or past
\* the targets 0, 1000 / T', 2 * 1000 / T', ..., in that order
EmittedAreFirstAtTargets ==
    \A k \in 0..video.total_frames :
        LET first == FirstFrameAtTarget(k, config.target_fps, video.fps)
        IN  /\ first < frame_number <=> k < Len(emitted)
            /\ k < Len(emitted) => emitted[k + 1].frame_number = first

\* C18: with 0 < T' < F outside the pass-through epsilon, the next target after
\* k emissions is k * (1000 / T'), the k-th emitted frame (k = 0, 1, ...) is the
\* first source frame whose timestamp index / F * 1000 is at or past
\* k * 1000 / T', and frame 0 is emitted when the source is not empty.
C18_FixedIntervalSchedule ==
    Decimating =>
        /\ TargetIsMultipleOfInterval
        /\ EmittedAreFirstAtTargets
        /\ frame_number > 0 => (emitted # <<>> /\ emitted[1].frame_number = 0)

(***************************************************************************)
(* Claims about the tracker inside a run, checked under Spec               *)
(***************************************************************************)
\* the tracked detections of identity id in the FrameTrackings fts, in the order
\* they were returned
RECURSIVE Observations(_, _)
Observations(fts, id) ==
    IF fts = <<>> THEN <<>>
    ELSE LET OfId(d) == d.track_id = id
         IN  SelectSeq(fts[1].tracked_detections, OfId) \o Observations(Tail(fts), id)

\* the frame numbers of those detections
ObservedFrames(fts, id) ==
    [i \in 1..Len(Observations(fts, id)) |-> Observations(fts, id)[i].frame_number]

SeqRange(q) == {q[i] : i \in 1..Len(q)}

\* C21: a trajectory's total_frames is the number of observations of its
\* identity, not last_frame - first_frame + 1: its frame_numbers are exactly the
\* frames on which the identity was reported, gaps left as they are, and
\* first_frame / last_frame are the least / greatest of them.
C21_ObservationsNotSpan ==
    mode = "TRACK" =>
        \A order \in ClassOrders :
            \A id \in DOMAIN trajectories :
                trajectories[id] # <<>> =>
                    LET t == ObjectTrajectory(id, trajectories[id], order)
                        observed == ObservedFrames(frame_results, id)
                    IN  /\ t.total_frames = Len(observed)
                        /\ t.frame_numbers = observed
                        /\ Len(t.positions) = Len(observed)
                        /\ t.first_frame = SetMin(SeqRange(observed))
                        /\ t.last_frame = SetMax(SeqRange(observed))

\* a returned run of three frames in which identity 1 is seen on frames 0 and 2
\* and not on frame 1
C21_Witness ==
    /\ Returned
    /\ mode = "TRACK"
    /\ Len(frame_results) = 3
    /\ 1 \in DOMAIN trajectories
    /\ LET t == ObjectTrajectory(1, trajectories[1], <<"person", "vehicle">>)
       IN  /\ t.frame_numbers = <<0, 2>>
           /\ t.total_frames = 2
           /\ t.last_frame - t.first_frame + 1 = 3
    /\ frame_results[2].frame_number = 1
    /\ frame_results[2].tracked_detections = <<>>

\* the sum of the values of a dict of counts over the keys in S
RECURSIVE SumOver(_, _)
SumOver(f, S) ==
    IF S = {} THEN 0
    ELSE LET k == CHOOSE x \in S : TRUE
         IN  f[k] + SumOver(f, S \ {k})

SumValues(f) == SumOver(f, DOMAIN f)

\* the majority class of identity id under the iteration order of the labels
MajorityClassOf(id, order) ==
    MajorityClass([i \in 1..Len(trajectories[id]) |-> trajectories[id][i].class_name], order)

\* the identities with at least one accumulated observation
AccumulatedIds == {id \in DOMAIN trajectories : trajectories[id] # <<>>}

\* C23: in a TrackingSummary total_unique_objects is the number of
\* trajectories and by_class counts one entry per trajectory under its majority
\* class, so the by_class values sum to total_unique_objects, while
\* total_detections is the sum of the per-frame tracked-detection counts; in a
\* DetectionSummary the by_class values sum to total_detections, the sum of the
\* per-frame detection counts.
C23_SummaryCounts ==
    /\ (Returned /\ mode = "TRACK") =>
        LET s == result[1].tracking_summary
        IN  /\ s.total_unique_objects = Cardinality(AccumulatedIds)
            /\ \E order \in ClassOrders :
                   /\ DOMAIN s.by_class = {MajorityClassOf(id, order) : id \in AccumulatedIds}
                   /\ \A c \in DOMAIN s.by_class :
                          s.by_class[c] = Cardinality({id \in AccumulatedIds :
                                                         MajorityClassOf(id, order) = c})
            /\ SumValues(s.by_class) = s.total_unique_objects
            /\ s.total_detections =
                   SumSeq([i \in 1..Len(frame_results) |->
                              Len(frame_results[i].tracked_detections)])
    /\ (Returned /\ mode = "DETECT") =>
        LET s == result[1].detection_summary
        IN  /\ SumValues(s.by_class) = s.total_detections
            /\ s.total_detections =
                   SumSeq([i \in 1..Len(frame_results) |-> Len(frame_results[i].detections)])

\* a returned TRACK run with three tracked detections of two objects, a person
\* and a vehicle: one of the identities is seen on two frames
C23_Witness ==
    /\ Returned
    /\ mode = "TRACK"
    /\ result[1].tracking_summary.total_detections = 3
    /\ result[1].tracking_summary.total_unique_objects = 2
    /\ SumValues(result[1].tracking_summary.by_class) = 2
    /\ DOMAIN result[1].tracking_summary.by_class = {"person", "vehicle"}

\* the identities of the tracked detections returned since the tracker was made or reset
ReturnedIds == UNION {IdsOf(frame_results[i]) : i \in 1..Len(frame_results)}

\* the model reports no identity for the scene: boxes.id is None, or no box
\* survives the class filter
NoIdentitySurvives(scene) ==
    \/ ~scene.has_ids
    \/ \A i \in 1..Len(scene.boxes) :
           ~IsTargetClass(scene.boxes[i].box.cls, config.target_classes)

\* the frames of the run without a tracked detection
FramesWithoutIdentity == {i \in 1..Len(frame_results) : frame_results[i].tracked_detections = <<>>}

\* C24: a track_frame call on a frame for which the model reports no identity
\* leaves the accumulated identity map as it is and returns a FrameTracking with
\* an empty list, and the frame still counts toward frames_without_tracks in
\* the summary.
C24_EmptyFrameLeavesMap ==
    /\ (pc = "yielded" /\ mode = "TRACK") =>
        \A scene \in RunTrackOutputs :
            LET r == TrackFrame(CurrentFrame, ModelTrack(scene, Len(model_log)),
                                config.target_classes, trajectories)
            IN  NoIdentitySurvives(scene) =>
                    /\ r.trajectories = trajectories
                    /\ r.frame_tracking.tracked_detections = <<>>
                    /\ r.frame_tracking.frame_number = CurrentFrame.frame_number
    /\ (Returned /\ mode = "TRACK") =>
        /\ result[1].tracking_summary.frames_without_tracks = Cardinality(FramesWithoutIdentity)
        /\ AccumulatedIds = ReturnedIds

\* a returned run whose second frame has no identity: the map holds what the
\* first frame gave it, and the summary counts the second frame
C24_Witness ==
    /\ Returned
    /\ mode = "TRACK"
    /\ Len(frame_results) = 2
    /\ FramesWithoutIdentity = {2}
    /\ DOMAIN trajectories = {1}
    /\ Len(trajectories[1]) = 1
    /\ result[1].tracking_summary.frames_without_tracks = 1
    /\ result[1].tracking_summary.frames_with_tracks = 1

(***************************************************************************)
(* Further claims about the tracker, checked under SpecTracker             *)
(***************************************************************************)
\* the bounding boxes of the tracked detections of identity id, in the order
\* they were returned
ObservedPositions(fts, id) ==
    [i \in 1..Len(Observations(fts, id)) |-> Observations(fts, id)[i].bbox]

\* C22: build_trajectories returns one trajectory per identity with at least one
\* accumulated observation, none twice and none missing, in strictly ascending
\* order of track identity, each with its positions and frame_numbers in the
\* order they were accumulated.
C22_OnePerIdentityAscending ==
    \A order \in ClassOrders :
        LET trajs == BuildTrajectories(trajectories, order)
        IN  /\ {trajs[k].track_id : k \in 1..Len(trajs)} = AccumulatedIds
            /\ AccumulatedIds = ReturnedIds
            /\ \A k \in 1..Len(trajs) : \A l \in 1..Len(trajs) :
                   k < l => trajs[k].track_id < trajs[l].track_id
            /\ \A k \in 1..Len(trajs) :
                   /\ trajs[k].frame_numbers = ObservedFrames(frame_results, trajs[k].track_id)
                   /\ trajs[k].positions = ObservedPositions(frame_results, trajs[k].track_id)

\* identity 2 is accumulated before identity 1, and identity 1 is seen on frame 2
\* before frame 0
C22_Witness ==
    /\ Len(frame_results) = 2
    /\ Len(frame_results[1].tracked_detections) = 2
    /\ frame_results[1].tracked_detections[1].track_id = 2
    /\ LET trajs == BuildTrajectories(trajectories, <<"person", "vehicle">>)
       IN  /\ Len(trajs) = 2
           /\ trajs[1].track_id = 1
           /\ trajs[1].frame_numbers = <<2, 0>>
           /\ trajs[1].positions[1] # trajs[1].positions[2]
           /\ trajs[2].track_id = 2


(***************************************************************************)
(* Claims about successive runs of one pipeline, checked under Spec        *)
(***************************************************************************)
\* the frame numbers the sampler has yielded in the current run
EmittedFrameNumbers == {emitted[i].frame_number : i \in 1..Len(emitted)}

\* the frame numbers of the observations accumulated in the identity map
AccumulatedFrameNumbers ==
    UNION {{trajectories[id][k].frame_number : k \in 1..Len(trajectories[id])} :
               id \in DOMAIN trajectories}

\* C26: the identity map belongs to one run: a process_video call has an empty
\* identity map when its loop begins, whatever an earlier call on the same
\* pipeline accumulated, so the map, and with it the returned summary, holds
\* only observations made on frames of the video of the current call.
C26_RunOwnsIdentityMap ==
    /\ pc = "created" => trajectories = <<>>
    /\ mode = "TRACK" =>
        /\ AccumulatedIds = ReturnedIds
        /\ AccumulatedFrameNumbers \subseteq EmittedFrameNumbers
        /\ \A f \in AccumulatedFrameNumbers : f < video.total_frames
        /\ \A id \in AccumulatedIds : Len(trajectories[id]) <= Len(emitted)
    /\ (Returned /\ mode = "TRACK") =>
        /\ result[1].tracking_summary.total_unique_objects = Cardinality(ReturnedIds)
        /\ result[1].tracking_summary.longest_track <= Len(emitted)

\* the second video of a pipeline, one frame long, has been processed after a
\* first video on which identities were accumulated: its summary counts the one
\* object seen on its single frame, once
C26_Witness ==
    /\ Returned
    /\ mode = "TRACK"
    /\ video.file = SecondVideoFile
    /\ video.total_frames = 1
    /\ Len(emitted) = 1
    /\ result[1].tracking_summary.total_unique_objects = 1
    /\ result[1].tracking_summary.longest_track = 1
    /\ result[1].tracking_summary.total_detections = 1


\* C27: build_trajectories and build_summary are queries: they leave the
\* identity map as it was, so a query made again with no track_frame or reset in
\* between returns a value equal to the one the last query returned, and the
\* trajectories built after a summary are the ones the summary counted.
C27_QueriesArePure ==
    /\ AccumulatedIds = ReturnedIds
    /\ \A id \in AccumulatedIds :
           TrackFrameNumbers(trajectories[id]) = ObservedFrames(frame_results, id)
    /\ result # None =>
        /\ result[1].query = "build_trajectories" =>
               result[1].value = BuildTrajectories(trajectories, result[1].order)
        /\ result[1].query = "build_summary" =>
            /\ result[1].value = BuildTrackingSummary(frame_results, Len(frame_results),
                                                      trajectories, result[1].order)
            /\ result[1].value.total_unique_objects =
                   Len(BuildTrajectories(trajectories, result[1].order))

\* build_trajectories has just returned the trajectories of two identities
C27_Witness ==
    /\ result # None
    /\ result[1].query = "build_trajectories"
    /\ Len(result[1].value) = 2
    /\ Cardinality(AccumulatedIds) = 2
    /\ Len(frame_results) = 2


(***************************************************************************)
(* Claims about what a tracking run returns and keeps, checked under Spec  *)
(***************************************************************************)
\* the number of accumulated observations made on frame n, over all identities
ObservationsOnFrame(n) ==
    SumOver([id \in AccumulatedIds |->
                Cardinality({k \in 1..Len(trajectories[id]) :
                                trajectories[id][k].frame_number = n})],
            AccumulatedIds)

\* C28: in a TRACK result the total_frames of the trajectories add up to
\* total_detections, every returned tracked detection having been accumulated
\* under one identity, so longest_track and total_unique_objects are at most
\* total_detections.
C28_TrackLengthsSumToDetections ==
    /\ mode = "TRACK" =>
        \A i \in 1..Len(frame_results) :
            ObservationsOnFrame(frame_results[i].frame_number) =
                Len(frame_results[i].tracked_detections)
    /\ (Returned /\ mode = "TRACK") =>
        \A order \in ClassOrders :
            LET trajs == BuildTrajectories(trajectories, order)
                s == result[1].tracking_summary
            IN  /\ SumSeq([k \in 1..Len(trajs) |-> trajs[k].total_frames]) = s.total_detections
                /\ s.longest_track <= s.total_detections
                /\ s.total_unique_objects <= s.total_detections
                /\ s.total_unique_objects = Len(trajs)

\* a returned TRACK run of three frames: two objects on one frame, one of them
\* again on another, so the longest track is shorter than the detection count
C28_Witness ==
    /\ Returned
    /\ mode = "TRACK"
    /\ frames_extracted = 3
    /\ result[1].tracking_summary.total_detections = 3
    /\ result[1].tracking_summary.longest_track = 2
    /\ result[1].tracking_summary.total_unique_objects = 2
    /\ \E i \in 1..3 : Len(frame_results[i].tracked_detections) = 2


(***************************************************************************)
(* Claims about the class filter, checked under SpecQueries                *)
(***************************************************************************)
\* the model class has a mapping and the mapped class is a target class
PassesFilter(coco_name) ==
    /\ CocoToDxd(coco_name) # None
    /\ CocoToDxd(coco_name)[1] \in config.target_classes

\* the FrameTracking the last track_frame call returned
LastTracking == frame_results[Len(frame_results)]

\* the returned tracked detections with the frame index, class and identity of
\* an accumulated observation
ReturnedLike(id, entry) ==
    {p \in UNION {{<<i, j>> : j \in 1..Len(frame_results[i].tracked_detections)} :
                      i \in 1..Len(frame_results)} :
        /\ frame_results[p[1]].frame_number = entry.frame_number
        /\ frame_results[p[1]].tracked_detections[p[2]].frame_number = entry.frame_number
        /\ frame_results[p[1]].tracked_detections[p[2]].class_name = entry.class_name
        /\ frame_results[p[1]].tracked_detections[p[2]].track_id = id}

\* the accumulated observations with the frame index, class and identity of a
\* returned tracked detection
AccumulatedLike(td) ==
    IF td.track_id \in DOMAIN trajectories
    THEN {k \in 1..Len(trajectories[td.track_id]) :
             /\ trajectories[td.track_id][k].frame_number = td.frame_number
             /\ trajectories[td.track_id][k].class_name = td.class_name}
    ELSE {}

\* the box left no tracked detection in the FrameTracking and no observation of
\* that frame in the identity map
LeftNoTrace(tb, ft) ==
    /\ \A j \in 1..Len(ft.tracked_detections) :
           \/ ft.tracked_detections[j].track_id # tb.id
           \/ ft.tracked_detections[j].bbox # BoundingBox(tb.box.xyxy)
    /\ tb.id \in DOMAIN trajectories =>
           \A k \in 1..Len(trajectories[tb.id]) :
               \/ trajectories[tb.id][k].frame_number # ft.frame_number
               \/ trajectories[tb.id][k].bbox # BoundingBox(tb.box.xyxy)

RaisedInsideWith == pc = "raised" /\ error[1].site # "VideoReader"

\* C30: the capture process_video opened is released on every way out of it:
\* once it has returned, in any of the three modes, and once it has raised
\* because the frame source or the vision model failed during the run (or any
\* later step did), the reader's capture is None; until then it is open.
C30_CaptureReleasedOnExit ==
    /\ Returned => cap = NoCapture
    /\ RaisedInsideWith => cap = NoCapture
    /\ pc \notin {"idle", "returned", "raised"} => cap = "open"

\* the vision model failed on the second frame of a run: the run has raised with
\* one frame processed and the capture is released
C30_Witness ==
    /\ pc = "raised"
    /\ error[1].site = "model"
    /\ Len(emitted) = 2
    /\ frames_extracted = 1
    /\ cap = NoCapture
====
